---- MODULE Spec2Model ----
(***************************************************************************)
(* The Intcode interpreter of day-13/rust/src/interpreter.rs as a state    *)
(* machine: one action per arm of Interpreter::step, the decoding helpers  *)
(* (get_digits, parse_mode, parse_opcode) and the memory helpers (fetch,   *)
(* get_operand, put) as operators.                                         *)
(*                                                                         *)
(* Values are i64 in the source.  Every value of the model stays far       *)
(* inside the i64 range, so the arithmetic of the model is the arithmetic  *)
(* of the source where no overflow happens.                                *)
(***************************************************************************)
EXTENDS Integers, Sequences, FiniteSets, TLC

VARIABLES
    codes,          \* Interpreter.codes: HashMap<i64, i64>, a function on the set keys
    position,       \* Interpreter.position
    is_running,     \* Interpreter.is_running
    last_output,    \* Interpreter.last_output
    has_outputted,  \* Interpreter.has_outputted
    relative_base,  \* Interpreter.relative_base
    joystick,       \* Interpreter.joystick
    outputs,        \* Interpreter.outputs: Vec<i64>
    panicked,       \* "none", or which panic! ended the run
    program,        \* the Vec<i64> the machine was constructed from
    steps,          \* how many times the caller has called step()
    last_op,        \* the OpCode the last call of step() decoded
    history         \* what the calls of step() so far have done: the keys
                    \* put has inserted under, the sum of the arguments
                    \* AdjustBase has added, whether Halt has been decoded

vars == <<codes, position, is_running, last_output, has_outputted,
          relative_base, joystick, outputs, panicked, program, steps, last_op,
          history>>

\* The machine proper: every field of struct Interpreter.
machine == <<codes, position, is_running, last_output, has_outputted,
             relative_base, joystick, outputs>>

-----------------------------------------------------------------------------
(* Bounds of the model *)

\* The caller calls step() at most MaxSteps times.
MaxSteps == 3

\* The caller's run-to-halt loop calls step() at most MaxRunSteps times on
\* the programs of LongRuns.
MaxRunSteps == 90

\* The values the caller may store in the joystick field before the run.
Inputs == {7}

\* The opcodes of generated instruction words: the eleven known ones and 45.
Opcodes == {0, 1, 2, 3, 4, 5, 6, 7, 8, 9, 99, 45}

\* The mode digits of generated instruction words.
ModeDigits == {0, 1, 2}

GenWords ==
    { m3 * 10000 + m2 * 1000 + m1 * 100 + o :
        m3 \in ModeDigits, m2 \in ModeDigits, m1 \in ModeDigits, o \in Opcodes }

\* Instruction words outside the generated ones: negative words and words
\* with a mode digit above 2.
SpecialWords == { -1002, -2101, -99, 901, 90101, 30099, 9904, 304, 70008 }

\* Instruction words of more than five decimal digits.
LongWords == { 100001, 110002, 123499, 100990, 1000099, 200010 }

Words == GenWords \cup SpecialWords

Params1 == {-2, 0, 3}
Params2 == {-2, 0, 3}
Params3 == {-2, 1, 7}

\* What may precede the generated instruction: nothing, or an AdjustBase
\* that moves the relative base up or down.
Prefixes == { <<>>, <<109, 2>>, <<109, -3>> }

Generated ==
    { pre \o <<w, x, y, z>> :
        pre \in Prefixes, w \in Words, x \in Params1, y \in Params2, z \in Params3 }

\* Whole programs: the scenarios of the specification's section 8 (A, B, C),
\* two outputs in a row, two inputs in a row, an empty program.
Scenarios ==
    { <<1, 0, 0, 0, 99>>,
      <<1002, 4, 3, 4, 33>>,
      <<3, 0, 4, 0, 99>>,
      <<104, 8, 4, 0, 99>>,
      <<3, 6, 203, -1, 99>>,
      <<>> }

\* A long instruction word in front of three zero cells.
LongPrograms == { <<w, 0, 0, 0>> : w \in LongWords }

Programs == Generated \cup Scenarios \cup LongPrograms

\* Scenario D of the specification's section 8: the program that outputs
\* itself.
ScenarioD ==
    <<109, 1, 204, -1, 1001, 100, 1, 100, 1008, 100, 16, 101, 1006, 101, 0, 99>>

\* A program that puts a Halt at address 6, two cells past its end.
HaltPastEnd == <<1101, 99, 0, 6, 0>>

\* Programs whose runs are followed for MaxRunSteps steps: scenario D, two
\* programs that run off their end into unset memory, and HaltPastEnd.
LongRuns == { ScenarioD, <<>>, <<1, 0, 0, 0>>, HaltPastEnd }

\* The programs run to their halt: the long runs, scenarios A, B, C, and a
\* program with a JumpIfTrue and a LessThan.
RunPrograms ==
    LongRuns \cup
    { <<1, 0, 0, 0, 99>>,
      <<1002, 4, 3, 4, 33>>,
      <<3, 0, 4, 0, 99>>,
      <<1105, 1, 4, 0, 1107, 1, 2, 9, 99>> }

-----------------------------------------------------------------------------
(* Memory *)

\* fetch: the value stored under pos, 0 when the map has no such key.
Fetch(pos) == IF pos \in DOMAIN codes THEN codes[pos] ELSE 0

\* HashMap::insert: the map with key addr bound to data, every other key kept.
Insert(m, addr, data) ==
    [k \in (DOMAIN m) \cup {addr} |-> IF k = addr THEN data ELSE m[k]]

\* get_operand with a Relative mode that forgets the relative base.
GetOperandNoBase(pos, mode) ==
    CASE mode = "Immediate" -> Fetch(pos)
      [] mode = "Position"  -> Fetch(Fetch(pos))
      [] mode = "Relative"  -> Fetch(Fetch(pos))

\* get_operand
GetOperand(pos, mode) ==
    CASE mode = "Immediate" -> Fetch(pos)
      [] mode = "Position"  -> Fetch(Fetch(pos))
      [] mode = "Relative"  -> Fetch(relative_base + Fetch(pos))

\* put with a Relative mode that forgets the relative base.
PutAddrNoBase(pos, mode) == Fetch(pos)

\* put: the key the data goes under (its panic for any other mode is PutPanics).
PutAddr(pos, mode) ==
    CASE mode = "Position" -> Fetch(pos)
      [] mode = "Relative" -> relative_base + Fetch(pos)

PutPanics(mode) == mode \notin {"Position", "Relative"}

\* put, when it does not panic: codes after the insert.
Put(pos, data, mode) == Insert(codes, PutAddr(pos, mode), data)

-----------------------------------------------------------------------------
(* Decoding *)

\* number.to_string().chars().filter_map(to_digit): the decimal digits of the
\* number, most significant first; the sign character is filtered out.
RECURSIVE DecimalDigits(_)
DecimalDigits(n) ==
    IF n < 10 THEN <<n>> ELSE DecimalDigits(n \div 10) \o <<n % 10>>

Magnitude(n) == IF n < 0 THEN 0 - n ELSE n

\* reverse; push 0 while len < 5; reverse: zeros in front, up to five digits.
RECURSIVE PadFront(_)
PadFront(digits) ==
    IF Len(digits) < 5 THEN PadFront(<<0>> \o digits) ELSE digits

\* a parse_mode whose last arm is Immediate
ParseModeImmediate(mode) ==
    CASE mode = 0 -> "Position"
      [] mode = 1 -> "Immediate"
      [] mode = 2 -> "Relative"
      [] OTHER    -> "Immediate"

\* parse_mode
ParseMode(mode) ==
    CASE mode = 0 -> "Position"
      [] mode = 1 -> "Immediate"
      [] mode = 2 -> "Relative"
      [] OTHER    -> "Position"

\* get_digits: (mode of parameter 1, of parameter 2, of parameter 3, opcode).
\* The source indexes from 0: digits[2], digits[1], digits[0], digits[3..4].
GetDigits(number) ==
    LET digits == PadFront(DecimalDigits(Magnitude(number)))
    IN  <<ParseMode(digits[3]), ParseMode(digits[2]), ParseMode(digits[1]),
          digits[4] * 10 + digits[5]>>

\* a parse_opcode whose last arm is a silent Noop, not the panic!
ParseOpcodeLenient(number) ==
    LET op == GetDigits(number)
    IN  CASE op[4] = 1  -> [tag |-> "Add", p1 |-> op[1], p2 |-> op[2], p3 |-> op[3]]
          [] op[4] = 2  -> [tag |-> "Multiply", p1 |-> op[1], p2 |-> op[2], p3 |-> op[3]]
          [] op[4] = 3  -> [tag |-> "Input", p1 |-> op[1]]
          [] op[4] = 4  -> [tag |-> "Output", p1 |-> op[1]]
          [] op[4] = 5  -> [tag |-> "JumpIfTrue", p1 |-> op[1], p2 |-> op[2]]
          [] op[4] = 6  -> [tag |-> "JumpIfFalse", p1 |-> op[1], p2 |-> op[2]]
          [] op[4] = 7  -> [tag |-> "LessThan", p1 |-> op[1], p2 |-> op[2], p3 |-> op[3]]
          [] op[4] = 8  -> [tag |-> "Equals", p1 |-> op[1], p2 |-> op[2], p3 |-> op[3]]
          [] op[4] = 9  -> [tag |-> "AdjustBase", p1 |-> op[1]]
          [] op[4] = 99 -> [tag |-> "Halt"]
          [] OTHER      -> [tag |-> "Noop"]

\* parse_opcode; tag "Unimplemented" stands for its panic!.
ParseOpcode(number) ==
    LET op == GetDigits(number)
    IN  CASE op[4] = 1  -> [tag |-> "Add", p1 |-> op[1], p2 |-> op[2], p3 |-> op[3]]
          [] op[4] = 2  -> [tag |-> "Multiply", p1 |-> op[1], p2 |-> op[2], p3 |-> op[3]]
          [] op[4] = 3  -> [tag |-> "Input", p1 |-> op[1]]
          [] op[4] = 4  -> [tag |-> "Output", p1 |-> op[1]]
          [] op[4] = 5  -> [tag |-> "JumpIfTrue", p1 |-> op[1], p2 |-> op[2]]
          [] op[4] = 6  -> [tag |-> "JumpIfFalse", p1 |-> op[1], p2 |-> op[2]]
          [] op[4] = 7  -> [tag |-> "LessThan", p1 |-> op[1], p2 |-> op[2], p3 |-> op[3]]
          [] op[4] = 8  -> [tag |-> "Equals", p1 |-> op[1], p2 |-> op[2], p3 |-> op[3]]
          [] op[4] = 9  -> [tag |-> "AdjustBase", p1 |-> op[1]]
          [] op[4] = 99 -> [tag |-> "Halt"]
          [] op[4] = 0  -> [tag |-> "Noop"]
          [] OTHER      -> [tag |-> "Unimplemented"]

\* step, line 58: the instruction at the current position.
Op == ParseOpcode(Fetch(position))

-----------------------------------------------------------------------------
(* Construction *)

\* a new that counts the keys from 1
NewCodesFromOne(prog) == [i \in 1 .. Len(prog) |-> prog[i]]

\* Interpreter::new: keys 0..N-1 bound to the program's values.
NewCodes(prog) == [i \in 0 .. (Len(prog) - 1) |-> prog[i + 1]]

\* The state Interpreter::new(prog) returns.
New(prog) ==
    /\ program = prog
    /\ codes = NewCodes(prog)
    /\ position = 0
    /\ is_running = TRUE
    /\ last_output = 0
    /\ has_outputted = FALSE
    /\ relative_base = 0
    /\ joystick = 0
    /\ outputs = <<>>
    /\ panicked = "none"
    /\ steps = 0
    /\ last_op = [tag |-> "None"]
    /\ history = [written |-> {}, adjusted |-> 0, halted |-> FALSE]

Init == \E prog \in Programs : New(prog)

InitRun == \E prog \in RunPrograms : New(prog)

\* The caller stores the run's input value in the public joystick field
\* after construction and before the first step.
SetJoystick ==
    /\ steps = 0
    /\ panicked = "none"
    /\ \E v \in Inputs : joystick' = v
    /\ UNCHANGED <<codes, position, is_running, last_output, has_outputted,
                   relative_base, outputs, panicked, program, steps, last_op,
                   history>>

-----------------------------------------------------------------------------
(* step() *)

\* A call of step() that the caller makes: the process has not panicked.
Called ==
    /\ panicked = "none"
    /\ steps < IF program \in LongRuns THEN MaxRunSteps ELSE MaxSteps

\* The key this call's put inserts under, if the call reaches an insert.
WrittenNow ==
    CASE Op.tag \in {"Add", "Multiply", "LessThan", "Equals"} /\ ~PutPanics(Op.p3) ->
           {PutAddr(position + 3, Op.p3)}
      [] Op.tag = "Input" /\ ~PutPanics(Op.p1) ->
           {PutAddr(position + 1, Op.p1)}
      [] OTHER -> {}

\* The arg this call's AdjustBase arm adds, 0 for the other arms.
AdjustNow ==
    IF Op.tag = "AdjustBase" THEN GetOperand(position + 1, Op.p1) ELSE 0

\* What every call does besides the arm's effect.
Count ==
    /\ steps' = steps + 1
    /\ last_op' = Op
    /\ history' = [written  |-> history.written \cup WrittenNow,
                   adjusted |-> history.adjusted + AdjustNow,
                   halted   |-> history.halted \/ Op.tag = "Halt"]
    /\ UNCHANGED program

\* a put that panics only after the arm has moved the position on
PanicWriteModeAfterAdvance ==
    /\ panicked' = "write_mode"
    /\ position' = position + 2
    /\ UNCHANGED <<codes, is_running, last_output, has_outputted,
                   relative_base, joystick, outputs>>

\* put's panic!: the process ends where it stands.
PanicWriteMode ==
    /\ panicked' = "write_mode"
    /\ UNCHANGED machine

\* an Add arm that subtracts
AddResultMinus(operand_1, operand_2) == operand_1 - operand_2

\* result of the Add arm
AddResult(operand_1, operand_2) == operand_1 + operand_2

\* result of the Multiply arm
MultiplyResult(operand_1, operand_2) == operand_1 * operand_2

\* a LessThan arm that tests <=
LessThanResultOrEqual(comparison_1, comparison_2) ==
    IF comparison_1 <= comparison_2 THEN 1 ELSE 0

\* the value the LessThan arm puts
LessThanResult(comparison_1, comparison_2) ==
    IF comparison_1 < comparison_2 THEN 1 ELSE 0

\* the value the Equals arm puts
EqualsResult(comparison_1, comparison_2) ==
    IF comparison_1 = comparison_2 THEN 1 ELSE 0

\* The arms that compute a value from two operands and put it under the third.
StoreArm(result) ==
    /\ Count
    /\ IF PutPanics(Op.p3)
         THEN PanicWriteMode
         ELSE /\ codes' = Put(position + 3, result, Op.p3)
              /\ position' = position + 4
              /\ UNCHANGED <<is_running, last_output, has_outputted,
                             relative_base, joystick, outputs, panicked>>

\* a Halt that also runs the match arm for Halt (line 82), which the early
\* return of line 62 keeps dead
StepHaltAdvancing ==
    /\ Called
    /\ Op.tag = "Halt"
    /\ Count
    /\ is_running' = FALSE
    /\ position' = position + 1
    /\ UNCHANGED <<codes, last_output, has_outputted,
                   relative_base, joystick, outputs, panicked>>

StepHalt ==
    /\ Called
    /\ Op.tag = "Halt"
    /\ Count
    /\ is_running' = FALSE
    /\ UNCHANGED <<codes, position, last_output, has_outputted,
                   relative_base, joystick, outputs, panicked>>

StepAdd ==
    /\ Called
    /\ Op.tag = "Add"
    /\ StoreArm(AddResult(GetOperand(position + 1, Op.p1),
                          GetOperand(position + 2, Op.p2)))

StepMultiply ==
    /\ Called
    /\ Op.tag = "Multiply"
    /\ StoreArm(MultiplyResult(GetOperand(position + 1, Op.p1),
                               GetOperand(position + 2, Op.p2)))

\* an Input arm that puts the last output, not the joystick
InputValueLastOutput == last_output

\* the value the Input arm puts
InputValue == joystick

StepInput ==
    /\ Called
    /\ Op.tag = "Input"
    /\ Count
    /\ IF PutPanics(Op.p1)
         THEN PanicWriteMode
         ELSE /\ codes' = Put(position + 1, InputValue, Op.p1)
              /\ position' = position + 2
              /\ UNCHANGED <<is_running, last_output, has_outputted,
                             relative_base, joystick, outputs, panicked>>

\* a push at the front of the vector
PushFront(vec, output) == <<output>> \o vec

\* outputs.push
Push(vec, output) == Append(vec, output)

\* an Output arm that leaves has_outputted as it is
StepOutputNoFlag ==
    /\ Called
    /\ Op.tag = "Output"
    /\ Count
    /\ LET output == GetOperand(position + 1, Op.p1)
       IN  /\ last_output' = output
           /\ outputs' = Push(outputs, output)
           /\ position' = position + 2
    /\ UNCHANGED <<codes, is_running, relative_base, joystick, panicked,
                   has_outputted>>

StepOutput ==
    /\ Called
    /\ Op.tag = "Output"
    /\ Count
    /\ LET output == GetOperand(position + 1, Op.p1)
       IN  /\ last_output' = output
           /\ has_outputted' = TRUE
           /\ outputs' = Push(outputs, output)
           /\ position' = position + 2
    /\ UNCHANGED <<codes, is_running, relative_base, joystick, panicked>>

\* A jump arm that steps over two cells, not three, when it does not jump.
JumpPositionShort(taken, to_jump) == IF taken THEN to_jump ELSE position + 2

\* The position after a jump arm: the target when the test holds, else past
\* the instruction's three cells.
JumpPosition(taken, to_jump) == IF taken THEN to_jump ELSE position + 3

StepJumpIfTrue ==
    /\ Called
    /\ Op.tag = "JumpIfTrue"
    /\ Count
    /\ LET comparison == GetOperand(position + 1, Op.p1)
           to_jump    == GetOperand(position + 2, Op.p2)
       IN  position' = JumpPosition(comparison # 0, to_jump)
    /\ UNCHANGED <<codes, is_running, last_output, has_outputted,
                   relative_base, joystick, outputs, panicked>>

StepJumpIfFalse ==
    /\ Called
    /\ Op.tag = "JumpIfFalse"
    /\ Count
    /\ LET comparison == GetOperand(position + 1, Op.p1)
           to_jump    == GetOperand(position + 2, Op.p2)
       IN  position' = JumpPosition(comparison = 0, to_jump)
    /\ UNCHANGED <<codes, is_running, last_output, has_outputted,
                   relative_base, joystick, outputs, panicked>>

StepLessThan ==
    /\ Called
    /\ Op.tag = "LessThan"
    /\ StoreArm(LessThanResult(GetOperand(position + 1, Op.p1),
                               GetOperand(position + 2, Op.p2)))

StepEquals ==
    /\ Called
    /\ Op.tag = "Equals"
    /\ StoreArm(EqualsResult(GetOperand(position + 1, Op.p1),
                             GetOperand(position + 2, Op.p2)))

\* an AdjustBase arm that assigns where the source adds
AdjustedBaseAssigned(arg) == arg

\* the relative base after the AdjustBase arm
AdjustedBase(arg) == relative_base + arg

StepAdjustBase ==
    /\ Called
    /\ Op.tag = "AdjustBase"
    /\ Count
    /\ relative_base' = AdjustedBase(GetOperand(position + 1, Op.p1))
    /\ position' = position + 2
    /\ UNCHANGED <<codes, is_running, last_output, has_outputted,
                   joystick, outputs, panicked>>

\* a Noop arm that moves on by two cells
StepNoopTwo ==
    /\ Called
    /\ Op.tag = "Noop"
    /\ Count
    /\ position' = position + 2
    /\ UNCHANGED <<codes, is_running, last_output, has_outputted,
                   relative_base, joystick, outputs, panicked>>

StepNoop ==
    /\ Called
    /\ Op.tag = "Noop"
    /\ Count
    /\ position' = position + 1
    /\ UNCHANGED <<codes, is_running, last_output, has_outputted,
                   relative_base, joystick, outputs, panicked>>

\* parse_opcode's panic!: nothing of the machine has been touched.
StepUnimplemented ==
    /\ Called
    /\ Op.tag = "Unimplemented"
    /\ Count
    /\ panicked' = "opcode"
    /\ UNCHANGED machine

Step ==
    \/ StepHalt
    \/ StepAdd
    \/ StepMultiply
    \/ StepInput
    \/ StepOutput
    \/ StepJumpIfTrue
    \/ StepJumpIfFalse
    \/ StepLessThan
    \/ StepEquals
    \/ StepAdjustBase
    \/ StepNoop
    \/ StepUnimplemented

Next == SetJoystick \/ Step

Spec == Init /\ [][Next]_vars

-----------------------------------------------------------------------------
(* The Add arm at the ends of the i64 range.                               *)
(*                                                                         *)
(* The integers of the model checker are narrower than i64, so a cell that *)
(* holds a value near the ends of the i64 range holds it as four 16-bit    *)
(* limbs, least significant first, in two's complement.  Such cells are    *)
(* the operands of the Add arm below; addresses, positions and instruction *)
(* words stay plain integers.                                              *)

LimbBase == 256 * 256

\* operand_1 + operand_2 in 64 bits, the carry out of the top limb dropped.
WideSum(a, b) ==
    LET s1 == a[1] + b[1]
        s2 == a[2] + b[2] + (s1 \div LimbBase)
        s3 == a[3] + b[3] + (s2 \div LimbBase)
        s4 == a[4] + b[4] + (s3 \div LimbBase)
    IN  <<s1 % LimbBase, s2 % LimbBase, s3 % LimbBase, s4 % LimbBase>>

\* The sign bit of an i64.
IsNegative(a) == a[4] >= LimbBase \div 2

\* The exact sum of the two i64 lies outside the i64 range.
SumOverflows(a, b) ==
    /\ IsNegative(a) = IsNegative(b)
    /\ IsNegative(WideSum(a, b)) # IsNegative(a)

I64Max == <<65535, 65535, 65535, 32767>>
I64Min == <<0, 0, 0, 32768>>

\* i64::MAX, MAX - 1, 2^62, 2, 1, 0, -1, -2, MIN + 1, MIN.
WideValues ==
    { I64Max, <<65534, 65535, 65535, 32767>>, <<0, 0, 0, 16384>>,
      <<2, 0, 0, 0>>, <<1, 0, 0, 0>>, <<0, 0, 0, 0>>,
      <<65535, 65535, 65535, 65535>>, <<65534, 65535, 65535, 65535>>,
      <<1, 0, 0, 32768>>, I64Min }

\* An Add of two immediates, or of two cells behind the Halt, into address
\* 5, then a Halt.
WidePrograms ==
    { <<1101, x, y, 5, 99, 0>> : x \in WideValues, y \in WideValues } \cup
    { <<1, 6, 7, 5, 99, 0, x, y>> : x \in WideValues, y \in WideValues }

InitWide == \E prog \in WidePrograms : New(prog)

\* The Add arm on i64 operands.  Line 69 is a plain +: where the sum
\* overflows, a build with overflow checks (cargo's dev profile) panics
\* there, before put is called, and a build without them (the release
\* profile) goes on with the wrapped sum.
StepAddWide ==
    /\ Called
    /\ Op.tag = "Add"
    /\ Count
    /\ LET operand_1 == GetOperand(position + 1, Op.p1)
           operand_2 == GetOperand(position + 2, Op.p2)
       IN  \/ /\ SumOverflows(operand_1, operand_2)
              /\ panicked' = "overflow"
              /\ UNCHANGED machine
           \/ IF PutPanics(Op.p3)
                THEN PanicWriteMode
                ELSE /\ codes' = Put(position + 3, WideSum(operand_1, operand_2), Op.p3)
                     /\ position' = position + 4
                     /\ UNCHANGED <<is_running, last_output, has_outputted,
                                    relative_base, joystick, outputs, panicked>>

NextWide == StepAddWide \/ StepHalt

SpecWide == InitWide /\ [][NextWide]_vars

\* The caller's loop: while interpreter.is_running { interpreter.step(); }
RunStep == is_running /\ Step

NextRun == SetJoystick \/ RunStep

\* The loop does not pause: while it can call step, it does.
SpecRun == InitRun /\ [][NextRun]_vars /\ WF_vars(RunStep)

-----------------------------------------------------------------------------
(* The statements checked of the model.  They are written on the cells of  *)
(* the memory map directly, not through the operators of the model.        *)

\* The content of address a of map m, 0 where nothing is stored.
Cell(m, a) == IF a \in DOMAIN m THEN m[a] ELSE 0

\* The operand of the parameter at address p under a mode, in this state.
Resolved(p, mode) ==
    CASE mode = "Immediate" -> Cell(codes, p)
      [] mode = "Position"  -> Cell(codes, Cell(codes, p))
      [] mode = "Relative"  -> Cell(codes, relative_base + Cell(codes, p))

\* The address a write through the parameter at address p goes to.
Destination(p, mode) ==
    IF mode = "Relative" THEN relative_base + Cell(codes, p) ELSE Cell(codes, p)

\* This step is a call of step() that decodes one of the tags.
Decodes(tags) ==
    /\ panicked = "none"
    /\ steps' = steps + 1
    /\ Op.tag \in tags

\* The addresses the frame conditions look at: every key of the map before
\* and after the step, and a margin around the program.
Probes == (DOMAIN codes) \cup (DOMAIN codes') \cup (-12 .. 12)

ScenarioA == <<1, 0, 0, 0, 99>>
ScenarioB == <<1002, 4, 3, 4, 33>>
ScenarioC == <<3, 0, 4, 0, 99>>

\* C1: a step of a running machine that decodes Add (Multiply) with a
\* destination mode other than Immediate leaves a+b (a*b) at the destination,
\* a and b being the first two operands resolved before the step, and moves
\* the position on by 4; program [1,0,0,0,99] has halted after two steps
\* with 2 at address 0.
C1_AddMultiply ==
    /\ [][ (Decodes({"Add", "Multiply"}) /\ is_running /\ Op.p3 # "Immediate") =>
             LET a == Resolved(position + 1, Op.p1)
                 b == Resolved(position + 2, Op.p2)
             IN  /\ Cell(codes', Destination(position + 3, Op.p3))
                      = IF Op.tag = "Add" THEN a + b ELSE a * b
                 /\ position' = position + 4 ]_vars
    /\ [](program = ScenarioA =>
            /\ steps = 2 => ~is_running
            /\ ~is_running => Cell(codes, 0) = 2 /\ panicked = "none")

\* A Multiply of two immediates has put 3 * 3 at a negative address through
\* a relative destination, and an Add has run before scenario A halted.
C1_Witness ==
    /\ last_op.tag = "Multiply"
    /\ last_op.p3 = "Relative"
    /\ panicked = "none"
    /\ relative_base = -3
    /\ Cell(codes, -5) = 9
    /\ position = 6

\* C3: in every state, for every parameter address and mode, get_operand
\* yields the cell itself (Immediate), the cell the cell points to (Position)
\* or the cell at relative base + cell (Relative), unset cells reading 0; the
\* steps that only resolve operands (Output, the jumps, AdjustBase) leave the
\* memory as it was.
C3_ResolveOperand ==
    /\ [](\A p \in -6 .. 8 : \A mode \in {"Immediate", "Position", "Relative"} :
            GetOperand(p, mode) = Resolved(p, mode))
    /\ [][ Decodes({"Output"}) =>
             last_output' = Resolved(position + 1, Op.p1) ]_vars
    /\ [][ Decodes({"Output", "JumpIfTrue", "JumpIfFalse", "AdjustBase"}) =>
             codes' = codes ]_vars

\* An Output in Relative mode under a moved base has read a set cell, and a
\* negative address is unset and reads 0 in Relative mode.
C3_Witness ==
    /\ last_op = [tag |-> "Output", p1 |-> "Relative"]
    /\ relative_base = 2
    /\ outputs = <<204>>
    /\ -1 \notin DOMAIN codes
    /\ GetOperand(1, "Relative") = 0

\* The value a writing step stores, from the state before the step.
Stored ==
    LET a == Resolved(position + 1, Op.p1)
        b == Resolved(position + 2, Op.p2)
    IN  CASE Op.tag = "Add"      -> a + b
          [] Op.tag = "Multiply" -> a * b
          [] Op.tag = "LessThan" -> IF a < b THEN 1 ELSE 0
          [] Op.tag = "Equals"   -> IF a = b THEN 1 ELSE 0
          [] Op.tag = "Input"    -> joystick

\* The mode and the address of the destination parameter of a writing step.
WriteMode == IF Op.tag = "Input" THEN Op.p1 ELSE Op.p3
WriteParam == IF Op.tag = "Input" THEN position + 1 ELSE position + 3

\* C4: a writing step (Add, Multiply, LessThan, Equals, Input) with a
\* Position or Relative destination stores its value at the one address the
\* destination parameter names (the cell, or relative base + the cell), be
\* it negative or beyond the program; that address then reads as the value
\* and every other address reads as before.
C4_WriteOperand ==
    [][ (Decodes({"Add", "Multiply", "LessThan", "Equals", "Input"})
            /\ WriteMode \in {"Position", "Relative"}) =>
          LET dest == Destination(WriteParam, WriteMode)
          IN  /\ Cell(codes', dest) = Stored
              /\ dest \in DOMAIN codes'
              /\ \A k \in Probes \ {dest} :
                    /\ Cell(codes', k) = Cell(codes, k)
                    /\ k \in DOMAIN codes' <=> k \in DOMAIN codes ]_vars

\* An Input has written the joystick value at a negative address through a
\* relative destination, and nothing else has changed.
C4_Witness ==
    /\ last_op = [tag |-> "Input", p1 |-> "Relative"]
    /\ relative_base = -3
    /\ joystick = 7
    /\ DOMAIN codes = (0 .. 5) \cup {-5}
    /\ codes[-5] = 7
    /\ \A i \in 0 .. 5 : codes[i] = program[i + 1]

\* C5: a step that decodes JumpIfTrue (JumpIfFalse) moves the position to
\* the resolved target when the resolved condition is not 0 (is 0) and on
\* by 3 otherwise; memory, relative base, running flag and outputs stay.
C5_Jumps ==
    [][ Decodes({"JumpIfTrue", "JumpIfFalse"}) =>
          LET c == Resolved(position + 1, Op.p1)
              t == Resolved(position + 2, Op.p2)
              taken == IF Op.tag = "JumpIfTrue" THEN c # 0 ELSE c = 0
          IN  /\ position' = IF taken THEN t ELSE position + 3
              /\ UNCHANGED <<codes, relative_base, is_running, outputs,
                             last_output, has_outputted>> ]_vars

\* A JumpIfFalse whose condition was 0 has jumped to a negative target.
C5_Witness ==
    /\ last_op = [tag |-> "JumpIfFalse", p1 |-> "Immediate", p2 |-> "Immediate"]
    /\ program = <<1106, 0, -2, 1>>
    /\ position = -2
    /\ is_running

\* The decimal digit of v at the place of weight w (1, 10, 100, ...).
DigitAt(v, w) == ((IF v < 0 THEN 0 - v ELSE v) \div w) % 10

\* The mode a mode digit stands for.
ModeOf(d) == IF d = 1 THEN "Immediate" ELSE IF d = 2 THEN "Relative" ELSE "Position"

\* The instruction the specification's decode reads from v: the opcode from
\* the low two digits, the modes of parameters 1, 2, 3 from the hundreds,
\* thousands and ten-thousands digits.
Decoded(v) ==
    LET o  == DigitAt(v, 10) * 10 + DigitAt(v, 1)
        m1 == ModeOf(DigitAt(v, 100))
        m2 == ModeOf(DigitAt(v, 1000))
        m3 == ModeOf(DigitAt(v, 10000))
    IN  CASE o \in {1, 2, 7, 8} ->
               [tag |-> CASE o = 1 -> "Add" [] o = 2 -> "Multiply"
                          [] o = 7 -> "LessThan" [] o = 8 -> "Equals",
                p1 |-> m1, p2 |-> m2, p3 |-> m3]
          [] o \in {5, 6} ->
               [tag |-> IF o = 5 THEN "JumpIfTrue" ELSE "JumpIfFalse",
                p1 |-> m1, p2 |-> m2]
          [] o \in {3, 4, 9} ->
               [tag |-> CASE o = 3 -> "Input" [] o = 4 -> "Output"
                          [] o = 9 -> "AdjustBase",
                p1 |-> m1]
          [] o = 99 -> [tag |-> "Halt"]
          [] o = 0  -> [tag |-> "Noop"]
          [] OTHER  -> [tag |-> "Unimplemented"]

\* C2: whatever integer v stands at the decoded address, negative or of more
\* than five digits, step decodes the opcode from the low two decimal digits
\* of v and the modes of parameters 1, 2, 3 from its hundreds, thousands and
\* ten-thousands digits; one step of [1002,4,3,4,33] leaves 99 at address 4.
C2_Decode ==
    /\ [][ (panicked = "none" /\ steps' = steps + 1) =>
             last_op' = Decoded(Cell(codes, position)) ]_vars
    /\ [](program = ScenarioB /\ steps = 1 => Cell(codes, 4) = 99)

\* C2 for the words of at most five decimal digits, where it holds.
C2_DecodeFiveDigits ==
    [][ (panicked = "none" /\ steps' = steps + 1
            /\ Cell(codes, position) < 100000 /\ Cell(codes, position) > -100000) =>
          last_op' = Decoded(Cell(codes, position)) ]_vars

\* C6: a step that decodes LessThan (Equals) with a destination mode other
\* than Immediate writes 1 when the first resolved operand is less than
\* (equal to) the second and 0 when not, and moves the position on by 4.
C6_Comparisons ==
    [][ (Decodes({"LessThan", "Equals"}) /\ Op.p3 # "Immediate") =>
          LET a == Resolved(position + 1, Op.p1)
              b == Resolved(position + 2, Op.p2)
              holds == IF Op.tag = "LessThan" THEN a < b ELSE a = b
              written == Cell(codes', Destination(position + 3, Op.p3))
          IN  /\ holds => written = 1
              /\ ~holds => written = 0
              /\ written \in {0, 1}
              /\ position' = position + 4 ]_vars

\* A LessThan of two equal immediates has written 0 over a cell that held 3.
C6_Witness ==
    /\ last_op = [tag |-> "LessThan", p1 |-> "Immediate", p2 |-> "Immediate",
                  p3 |-> "Position"]
    /\ program = <<1107, 3, 3, 1>>
    /\ codes[1] = 0
    /\ position = 4

TwoInputs == <<3, 6, 203, -1, 99>>

C8_Output ==
    [][ Decodes({"Output"}) =>
          LET operand == Resolved(position + 1, Op.p1)
          IN  /\ UNCHANGED <<codes, relative_base, is_running>>
              /\ Len(outputs') = Len(outputs) + 1
              /\ outputs'[Len(outputs')] = operand
              /\ \A i \in 1 .. Len(outputs) : outputs'[i] = outputs[i]
              /\ last_output' = operand
              /\ has_outputted' = TRUE
              /\ position' = position + 2 ]_vars

\* A second Output has appended 104 behind the 8 of the first.
C8_Witness ==
    /\ last_op = [tag |-> "Output", p1 |-> "Position"]
    /\ outputs = <<8, 104>>
    /\ last_output = 104
    /\ has_outputted
    /\ position = 4

\* C9: a step that decodes AdjustBase adds the resolved operand to the
\* relative base, moves the position on by 2 and changes nothing else.
C9_AdjustBase ==
    [][ Decodes({"AdjustBase"}) =>
          /\ relative_base' = relative_base + Resolved(position + 1, Op.p1)
          /\ position' = position + 2
          /\ UNCHANGED <<codes, is_running, outputs, last_output,
                         has_outputted, joystick, panicked>> ]_vars

\* A second AdjustBase, in Relative mode, has added the cell it read (209)
\* to a base of 2.
C9_Witness ==
    /\ last_op = [tag |-> "AdjustBase", p1 |-> "Relative"]
    /\ steps = 2
    /\ relative_base = 211
    /\ position = 4

\* C10: a step that decodes Halt, whatever the mode digits of the word, sets
\* the running flag to false and changes nothing else.
C10_Halt ==
    [][ Decodes({"Halt"}) =>
          /\ is_running' = FALSE
          /\ UNCHANGED <<position, codes, relative_base, outputs, last_output,
                         has_outputted, joystick, panicked>> ]_vars

\* A Halt with mode digits (30099) has stopped a machine that had moved its
\* position and relative base.
C10_Witness ==
    /\ last_op = [tag |-> "Halt"]
    /\ Cell(codes, position) = 30099
    /\ ~is_running
    /\ position = 2
    /\ relative_base = 2

\* The opcodes parse_opcode has an arm for.
KnownOpcodes == {0, 1, 2, 3, 4, 5, 6, 7, 8, 9, 99}

\* The opcode step decodes from the word at the position.
DecodedOpcode == GetDigits(Cell(codes, position))[4]

WritingTags == {"Add", "Multiply", "LessThan", "Equals", "Input"}

\* C11: a step whose decoded opcode is none of 0..9, 99 aborts with the
\* unimplemented-opcode panic, no field of the machine having changed; no
\* other step ends in that panic.
C11_UnimplementedOpcode ==
    /\ [][ (panicked = "none" /\ steps' = steps + 1
               /\ DecodedOpcode \notin KnownOpcodes) =>
             /\ panicked' = "opcode"
             /\ UNCHANGED machine ]_vars
    /\ [][ (panicked = "none" /\ panicked' = "opcode") =>
             DecodedOpcode \notin KnownOpcodes ]_vars

\* Opcode 45 has aborted the second step of a run; the machine is as the
\* first step (an AdjustBase) left it.
C11_Witness ==
    /\ panicked = "opcode"
    /\ last_op = [tag |-> "Unimplemented"]
    /\ steps = 2
    /\ Cell(codes, position) % 100 = 45
    /\ position = 2
    /\ relative_base = 2
    /\ codes = NewCodes(program)
    /\ is_running

\* C12: a step that decodes Add, Multiply, LessThan, Equals or Input with
\* the destination parameter in Immediate mode aborts with the write-mode
\* panic, no field of the machine having changed; a step changes memory
\* only as a writing instruction with a Position or Relative destination.
C12_ImmediateWrite ==
    /\ [][ (Decodes(WritingTags) /\ WriteMode = "Immediate") =>
             /\ panicked' = "write_mode"
             /\ UNCHANGED machine ]_vars
    /\ [][ (panicked = "none" /\ panicked' = "write_mode") =>
             (Op.tag \in WritingTags /\ WriteMode = "Immediate") ]_vars
    /\ [][ codes' # codes =>
             (Decodes(WritingTags) /\ WriteMode \in {"Position", "Relative"}) ]_vars

\* An Equals with an Immediate destination has aborted the second step of a
\* run; the machine is as the first step (an AdjustBase) left it.
C12_Witness ==
    /\ panicked = "write_mode"
    /\ last_op = [tag |-> "Equals", p1 |-> "Relative", p2 |-> "Position",
                  p3 |-> "Immediate"]
    /\ steps = 2
    /\ position = 2
    /\ relative_base = -3
    /\ codes = NewCodes(program)
    /\ is_running

\* The addresses new populates from the program of this run.
Populated == 0 .. (Len(program) - 1)

\* C13: in every reachable state fetch yields 0 for every address that new
\* did not populate and no executed write has targeted, negative addresses
\* included; fetch yields an integer for every address (it is total), and
\* the keys of the map are exactly the populated and the written addresses.
C13_FetchUnset ==
    /\ \A a \in (-12 .. 12) \cup DOMAIN codes :
          /\ (a \notin Populated /\ a \notin history.written) => Fetch(a) = 0
          /\ Fetch(a) \in Int
    /\ DOMAIN codes = Populated \cup history.written

\* A write has gone to address -5; the addresses around it and the ones
\* past the program still read 0.
C13_Witness ==
    /\ history.written = {-5}
    /\ Len(program) = 6
    /\ Fetch(-5) = 7
    /\ Fetch(-6) = 0
    /\ Fetch(-4) = 0
    /\ Fetch(-1) = 0
    /\ Fetch(6) = 0

\* C16: in every reachable state has_outputted is true exactly when the
\* outputs are not empty, and last_output is the last of the outputs, or 0
\* when there are none; the outputs change only by an Output step appending
\* its one resolved operand.
C16_OutputTrace ==
    /\ [](has_outputted <=> outputs # <<>>)
    /\ [](last_output = IF outputs = <<>> THEN 0 ELSE outputs[Len(outputs)])
    /\ [][ outputs' # outputs =>
             /\ Decodes({"Output"})
             /\ outputs' = Append(outputs, Resolved(position + 1, Op.p1)) ]_vars

\* Two Outputs have run, then the Halt: the trace holds both operands in
\* the order of emission.
C16_Witness ==
    /\ program = <<104, 8, 4, 0, 99>>
    /\ steps = 3
    /\ ~is_running
    /\ outputs = <<8, 104>>
    /\ last_output = 104
    /\ has_outputted

\* The word at the position has at most five digits and one of its three
\* mode digits is above 2.
HighModeDigit(w) ==
    LET v == Cell(codes, position)
    IN  v < 100000 /\ v > -100000 /\ DigitAt(v, w) > 2

\* C17: parse_mode maps digit 0 to Position, 1 to Immediate, 2 to Relative
\* and each of 3..9 to Position; a word with mode digit 9 decodes to the
\* instruction of the same word with digit 0 there, and a step on a word
\* with a mode digit above 2 reads and writes through that parameter as in
\* Position mode and does not abort for it.
C17_ModeDigits ==
    /\ \A d \in 0 .. 9 : ParseMode(d) = ModeOf(d)
    /\ \A d \in 3 .. 9 : ParseMode(d) = "Position"
    /\ \A o \in KnownOpcodes : \A place \in {100, 1000, 10000} :
          ParseOpcode(o + 9 * place) = ParseOpcode(o)
    /\ [][ (Decodes({"Output"}) /\ HighModeDigit(100)) =>
             last_output' = Cell(codes, Cell(codes, position + 1)) ]_vars
    /\ [][ (Decodes({"Add"}) /\ HighModeDigit(100)) =>
             Cell(codes', Destination(position + 3, Op.p3))
               = Cell(codes, Cell(codes, position + 1))
                   + Resolved(position + 2, Op.p2) ]_vars
    /\ [][ (Decodes({"Add", "Equals"}) /\ HighModeDigit(10000)) =>
             /\ panicked' = "none"
             /\ Cell(codes', Cell(codes, position + 3)) = Stored
             /\ \A k \in Probes \ {Cell(codes, position + 3)} :
                   Cell(codes', k) = Cell(codes, k) ]_vars

\* The Add word 90101 (mode digit 9 on the destination) has put 3 + 1 at
\* the address its third cell holds.
C17_Witness ==
    /\ program = <<90101, 3, 3, 1>>
    /\ steps = 1
    /\ last_op = [tag |-> "Add", p1 |-> "Immediate", p2 |-> "Position",
                  p3 |-> "Position"]
    /\ codes[1] = 4
    /\ position = 4
    /\ panicked = "none"

\* C18: the running flag is true exactly while no step has decoded Halt;
\* once false it stays false, and every further call of step decodes the
\* same Halt again and leaves the whole machine as it is.
C18_RunningFlag ==
    /\ [](is_running <=> ~history.halted)
    /\ [][ ~is_running => ~is_running' ]_vars
    /\ [][ (~is_running /\ panicked = "none" /\ steps' = steps + 1) =>
             /\ Op = [tag |-> "Halt"]
             /\ last_op' = [tag |-> "Halt"]
             /\ UNCHANGED machine ]_vars

\* Scenario A has halted at its second step and step has been called once
\* more.
C18_Witness ==
    /\ program = ScenarioA
    /\ steps = 3
    /\ last_op = [tag |-> "Halt"]
    /\ ~is_running
    /\ position = 4
    /\ codes[0] = 2

\* C19: the relative base is 0 after construction and only a step that
\* decodes AdjustBase changes it, so in every reachable state it is the sum
\* of the operands the AdjustBase steps so far have resolved.
C19_RelativeBase ==
    /\ [](steps = 0 => relative_base = 0)
    /\ [](relative_base = history.adjusted)
    /\ [][ relative_base' # relative_base => Decodes({"AdjustBase"}) ]_vars
    /\ [][ Decodes({"Add", "Multiply", "Input", "Output", "JumpIfTrue",
                    "JumpIfFalse", "LessThan", "Equals", "Noop", "Halt"}) =>
             relative_base' = relative_base ]_vars

\* Two AdjustBase steps (2, then 209) and a Noop after them.
C19_Witness ==
    /\ steps = 3
    /\ last_op = [tag |-> "Noop"]
    /\ history.adjusted = 211
    /\ relative_base = 211
    /\ position = 5

\* C14: the run-to-halt loop on scenario D ends with the running flag false
\* and no abort, and the outputs are then the sixteen values of the
\* program, in order.
C14_ScenarioD ==
    /\ (program = ScenarioD) ~> (program = ScenarioD /\ ~is_running)
    /\ [](program = ScenarioD => panicked = "none")
    /\ [](program = ScenarioD /\ ~is_running =>
            Len(outputs) = 16 /\ outputs = ScenarioD)

\* Scenario D has halted, with input 7, after its sixteen rounds.
C14_Witness ==
    /\ program = ScenarioD
    /\ joystick = 7
    /\ ~is_running
    /\ last_op = [tag |-> "Halt"]
    /\ outputs = ScenarioD
    /\ position = 15
    /\ Cell(codes, 100) = 16

\* The position is past the program and past every key of the map.
PastEveryKey ==
    /\ position >= Len(program)
    /\ \A k \in DOMAIN codes : k < position

\* What a Noop step does: one cell on, nothing else, no abort.
NoopEffect ==
    /\ position' = position + 1
    /\ panicked' = "none"
    /\ UNCHANGED <<codes, is_running, relative_base, outputs, last_output,
                   has_outputted, joystick>>

\* C20 as stated: a Noop step moves the position on by 1 and changes
\* nothing else, and once a run has moved past the last program address
\* without a Halt, every step keeps it running, does not abort and moves
\* the position on by 1.
C20_PastProgramEnd ==
    /\ [][ Decodes({"Noop"}) => NoopEffect ]_vars
    /\ [][ (is_running /\ panicked = "none" /\ steps' = steps + 1
               /\ position >= Len(program)) =>
             /\ is_running'
             /\ panicked' = "none"
             /\ position' = position + 1 ]_vars

\* C20 as amended: a Noop step moves the position on by 1 and changes
\* nothing else; once the position is past the last program address and
\* past every address written so far, every step of the run-to-halt loop is
\* a Noop, so the run stays running, does not abort and moves on by 1 for
\* ever, as the empty program and [1,0,0,0] do from their start.
C20_PastEveryKey ==
    /\ [][ Decodes({"Noop"}) => NoopEffect ]_vars
    /\ [][ (is_running /\ panicked = "none" /\ steps' = steps + 1
               /\ PastEveryKey) =>
             /\ Op = [tag |-> "Noop"]
             /\ NoopEffect
             /\ PastEveryKey' ]_vars
    /\ [](program \in { <<>>, <<1, 0, 0, 0>> } =>
            /\ is_running
            /\ panicked = "none"
            /\ steps >= 1 => PastEveryKey)

\* [1,0,0,0] has run twenty steps: the Add, then Noops over unset memory.
C20_Witness ==
    /\ program = <<1, 0, 0, 0>>
    /\ steps = 20
    /\ last_op = [tag |-> "Noop"]
    /\ position = 23
    /\ is_running
    /\ panicked = "none"
    /\ DOMAIN codes = 0 .. 3

\* C15: a step of a running machine aborts only when the decoded opcode is
\* unknown or the write parameter is in Immediate mode; whatever the
\* addresses and the operands of its arithmetic, any other step completes.
C15_OnlyTwoAborts ==
    [][ (panicked = "none" /\ steps' = steps + 1 /\ is_running
            /\ DecodedOpcode \in KnownOpcodes
            /\ ~(Op.tag \in WritingTags /\ WriteMode = "Immediate")) =>
          panicked' = "none" ]_vars

====
